---- MODULE Spec2Model ----
(***************************************************************************)
(* tokencount (src/src/main.rs): one run of the CLI, from the parsed Args  *)
(* to the exit status.  run() configures the worker pool, loads the        *)
(* tokenizer, compiles the exclude globs, walks every root               *)
(* (collect_files), tokenizes the candidates in parallel (count_tokens /   *)
(* process_file) and prints the report (output_results).                   *)
(*                                                                         *)
(* Strings are sequences of one-character strings, so that extension       *)
(* splitting, lower-casing and byte-wise comparison are computed.  A path  *)
(* is a sequence of components.  Option<T> is a sequence of length <= 1.   *)
(* Logging (stderr) is not part of the state.                              *)
(***************************************************************************)
EXTENDS Integers, Sequences, FiniteSets, TLC

VARIABLES
    args,          \* the parsed Args (immutable during the run)
    fs,            \* file contents and metadata, by canonical path (fixed)
    env,           \* outcomes of the external loaders: thread pool, tokenizer
    pc,            \* position of run()
    exit_code,     \* Option: the process exit status
    include_exts,  \* run(): include_exts
    exclude_set,   \* run(): exclude_set (the compiled patterns)
    root_i,        \* run(): index of the root being walked
    walkq,         \* the walker's pending entries for the current root
    descended,     \* <<root index, path>> of every directory the walker read
    yielded,       \* <<root index, path>> of every entry given to the loop
    files,         \* run(): files, the candidate list
    todo,          \* count_tokens: candidates no worker has taken yet
    results,       \* count_tokens: one slot per candidate
    stats,         \* run(): stats
    display,       \* output_results: ordered
    summary,       \* output_results: Option<Summary>
    stdout,        \* what was printed to standard output
    counts_in,     \* percentile study: the token counts given to build_summary
    pct_out        \* percentile study: Option of the percentiles computed

vars == <<args, fs, env, pc, exit_code, include_exts, exclude_set, root_i,
          walkq, descended, yielded, files, todo, results, stats, display,
          summary, stdout, counts_in, pct_out>>

-----------------------------------------------------------------------------
(* Bounds of the model. *)

MaxRoots == 2      \* roots on the command line
MaxSize == 2       \* bytes in a file
MaxShort == 4      \* percentile study: length of an arbitrary distribution
MaxVal == 3        \* percentile study: largest token count in it
MaxRamp == 120     \* percentile study: length of a distribution 1, 2, .., n

-----------------------------------------------------------------------------
(* Option<T>. *)

None == <<>>
Some(v) == <<v>>
IsSome(o) == o # <<>>
Unwrap(o) == o[1]

Min(a, b) == IF a <= b THEN a ELSE b
Max(a, b) == IF a >= b THEN a ELSE b

-----------------------------------------------------------------------------
(* Characters and strings. *)

\* The characters used, in ascending byte order (String's Ord is byte-wise).
AsciiOrder ==
    << ".", "/", "A", "B", "E", "G", "L", "M", "S", "T", "_",
       "a", "c", "d", "e", "g", "i", "l", "m", "n", "o", "r", "s", "t", "u" >>

Code(c) == CHOOSE i \in 1..Len(AsciiOrder) : AsciiOrder[i] = c

\* char::to_ascii_lowercase / to_lowercase on the characters used.
LowerChar(c) ==
    CASE c = "A" -> "a" [] c = "B" -> "b" [] c = "E" -> "e" [] c = "G" -> "g"
      [] c = "L" -> "l" [] c = "M" -> "m" [] c = "S" -> "s" [] c = "T" -> "t"
      [] OTHER -> c

\* str::to_ascii_lowercase (line 326) and String::to_lowercase (line 114).
to_ascii_lowercase(s) == [i \in 1..Len(s) |-> LowerChar(s[i])]
to_lowercase(s) == [i \in 1..Len(s) |-> LowerChar(s[i])]

\* a.cmp(&b) == Less on strings: lexicographic on bytes, a proper prefix first.
RECURSIVE StrLess(_, _)
StrLess(a, b) ==
    IF b = <<>> THEN FALSE
    ELSE IF a = <<>> THEN TRUE
    ELSE IF Code(a[1]) # Code(b[1]) THEN Code(a[1]) < Code(b[1])
    ELSE StrLess(Tail(a), Tail(b))

-----------------------------------------------------------------------------
(* Paths. *)

DOT == <<".">>

\* Path::to_string_lossy: the components joined by "/".
RECURSIVE JoinPath(_)
JoinPath(p) ==
    IF p = <<>> THEN <<>>
    ELSE IF Len(p) = 1 THEN p[1]
    ELSE p[1] \o <<"/">> \o JoinPath(Tail(p))

\* Index of the last "." of a file name, 0 when it has none.
LastDot(name) ==
    IF \E i \in 1..Len(name) : name[i] = "."
    THEN CHOOSE i \in 1..Len(name) :
             name[i] = "." /\ \A j \in (i + 1)..Len(name) : name[j] # "."
    ELSE 0

\* Path::extension: the part of the file name after its last ".", None when
\* the name has no "." or only a leading one (a hidden file such as ".elm").
extension(p) ==
    LET name == p[Len(p)]
        d == LastDot(name)
    IN  IF p = <<>> \/ name = DOT \/ d <= 1 THEN None
        ELSE Some(SubSeq(name, d + 1, Len(name)))

\* The working directory (std::env::current_dir), an absolute path.
Cwd == << <<"/">>, <<"r">> >>

IsPrefix(pre, p) == Len(pre) <= Len(p) /\ SubSeq(p, 1, Len(pre)) = pre

\* Path::strip_prefix.
strip_prefix(p, pre) ==
    IF IsPrefix(pre, p) THEN Some(SubSeq(p, Len(pre) + 1, Len(p))) ELSE None

normalize_display_path(p) ==
    IF IsSome(strip_prefix(p, Cwd))
    THEN LET stripped == Unwrap(strip_prefix(p, Cwd))
         IN  IF stripped = <<>> THEN DOT ELSE JoinPath(stripped)
    ELSE IF IsSome(strip_prefix(p, <<DOT>>))
    THEN LET stripped == Unwrap(strip_prefix(p, <<DOT>>))
         IN  IF stripped = <<>> THEN DOT ELSE JoinPath(stripped)
    ELSE JoinPath(p)

-----------------------------------------------------------------------------
(* The directory tree the run scans (relative to the working directory). *)

N_A == <<"A", ".", "e", "l", "m">>
N_B == <<"B", ".", "T", "S">>
N_H == <<".", "e", "l", "m">>
N_src == <<"s", "r", "c">>
N_S == <<"S", ".", "e", "l", "m">>
N_target == <<"t", "a", "r", "g", "e", "t">>
N_G == <<"G", ".", "e", "l", "m">>
N_gone == <<"g", "o", "n", "e">>
N_git == <<".", "g", "i", "t">>
N_node_modules == <<"n", "o", "d", "e", "_", "m", "o", "d", "u", "l", "e", "s">>

\* Canonical path of an entry: its path without a leading "." component.
Canon(p) == IF p # <<>> /\ p[1] = DOT THEN Tail(p) ELSE p

Dirs == { <<>>, <<N_src>>, <<N_target>> }
Files == { <<N_A>>, <<N_B>>, <<N_H>>, <<N_src, N_S>>, <<N_target, N_G>> }

\* The entries of a directory, in the order the walker reads them.
Listing(d) ==
    CASE d = <<>> -> << <<N_H>>, <<N_A>>, <<N_B>>, <<N_src>>, <<N_target>> >>
      [] d = <<N_src>> -> << <<N_src, N_S>> >>
      [] d = <<N_target>> -> << <<N_target, N_G>> >>
      [] OTHER -> <<>>

\* DirEntry of the walker: its path as the walker reports it (the root as given,
\* then the components below it) and its depth below the root.
Entry(path, depth) == [path |-> path, depth |-> depth]
is_dir(e) == Canon(e.path) \in Dirs
is_file(e) == Canon(e.path) \in Files
Exists(p) == Canon(p) \in Dirs \cup Files

\* The children of a directory entry, as entries.
ChildEntries(e) ==
    LET l == Listing(Canon(e.path))
    IN  [i \in 1..Len(l) |-> Entry(e.path \o <<l[i][Len(l[i])]>>, e.depth + 1)]

-----------------------------------------------------------------------------
(* File contents and metadata. *)

\* What process_file can learn of a file: whether fs::metadata succeeds, the
\* byte length it reports, whether read_to_string succeeds (the file is
\* readable UTF-8) and the number of tokens encode_ordinary gives its text.
Cond(meta, size, utf8, tokens) ==
    [meta |-> meta, size |-> size, utf8 |-> utf8, tokens |-> tokens]

\* A token covers at least one byte; an empty file has no token.
OkConds ==
    { c \in [meta : {TRUE}, size : 0..MaxSize, utf8 : {TRUE},
             tokens : 0..MaxSize] :
        IF c.size = 0 THEN c.tokens = 0 ELSE c.tokens \in 1..c.size }
UnreadableConds == { Cond(TRUE, s, FALSE, 0) : s \in 1..MaxSize }
NoMetadata == Cond(FALSE, 0, FALSE, 0)
AllConds == OkConds \cup UnreadableConds \cup {NoMetadata}

\* The source files whose condition the model varies.
Sources == { <<N_A>>, <<N_B>>, <<N_src, N_S>> }

BaseFs ==
    [f \in Files |->
        CASE f = <<N_A>> -> Cond(TRUE, MaxSize, TRUE, MaxSize)
          [] f = <<N_src, N_S>> -> Cond(TRUE, MaxSize, TRUE, 1)
          [] OTHER -> Cond(TRUE, 1, TRUE, 1)]

\* Every file system in which the sources' conditions are drawn from conds.
FsOver(conds) ==
    { [f \in Files |-> IF f \in Sources THEN g[f] ELSE BaseFs[f]] :
        g \in [Sources -> conds] }

-----------------------------------------------------------------------------
(* Exclude patterns (globset).  "**/name" matches a path whose last component *)
(* is name; "**/name/**" matches every path below a component name, not that  *)
(* component itself; a pattern with invalid syntax does not compile.          *)

GlobTail(name) == [kind |-> "**/name", name |-> name]
GlobUnder(name) == [kind |-> "**/name/**", name |-> name]
GlobInvalid == [kind |-> "invalid", name |-> <<"[">>]

\* Glob::new: Ok exactly for a pattern of valid syntax.
GlobNewOk(g) == g.kind # "invalid"

GlobMatches(g, p) ==
    CASE g.kind = "**/name" -> p # <<>> /\ p[Len(p)] = g.name
      [] g.kind = "**/name/**" -> \E i \in 1..(Len(p) - 1) : p[i] = g.name
      [] OTHER -> FALSE

\* GlobSet::is_match (lines 307 and 319).
is_match(set, p) == \E i \in 1..Len(set) : GlobMatches(set[i], p)

DefaultGlobs ==
    << GlobUnder(N_git), GlobTail(N_git), GlobUnder(N_target),
       GlobTail(N_target), GlobUnder(N_node_modules),
       GlobTail(N_node_modules) >>

\* build_exclude_globset leaving out a pattern that does not compile.
build_exclude_globset_lenient(patterns) ==
    Some(SelectSeq(patterns \o DefaultGlobs, GlobNewOk))

\* build_exclude_globset: the user's patterns, then the defaults; Err (None)
\* when a pattern does not compile.
build_exclude_globset(patterns) ==
    LET all == patterns \o DefaultGlobs
    IN  IF \E i \in 1..Len(all) : ~GlobNewOk(all[i]) THEN None ELSE Some(all)

-----------------------------------------------------------------------------
(* Args. *)

S_elm == <<"e", "l", "m">>

\* Args::include_extensions: the default when none is given, one leading "."
\* removed, lower-cased, collected into a set.
StripDot(ext) == IF ext # <<>> /\ ext[1] = "." THEN Tail(ext) ELSE ext

include_extensions(a) ==
    LET exts == IF a.include_ext = <<>> THEN <<S_elm>> ELSE a.include_ext
    IN  { to_lowercase(StripDot(exts[i])) : i \in 1..Len(exts) }

\* with_summary with the summary off unless --with-summary asks for it.
with_summary_opt_in(a) ==
    IF a.no_summary_flag THEN FALSE
    ELSE IF a.with_summary_flag THEN TRUE
    ELSE FALSE

\* Args::with_summary.
with_summary(a) ==
    IF a.no_summary_flag THEN FALSE
    ELSE IF a.with_summary_flag THEN TRUE
    ELSE TRUE

RootOptions ==
    { <<DOT>>, <<N_src>>, <<N_target>>, <<N_target, N_G>>, <<N_A>>, <<N_gone>> }

RECURSIVE SeqsUpTo(_, _)
SeqsUpTo(S, n) ==
    IF n = 0 THEN { <<>> }
    ELSE LET shorter == SeqsUpTo(S, n - 1)
         IN  shorter \cup { Append(s, x) : s \in shorter, x \in S }

PathsOptions == SeqsUpTo(RootOptions, MaxRoots)

IncludeOptions ==
    { <<>>,
      << <<".", "E", "L", "M">> >>,
      << <<"t", "s">> >>,
      << S_elm, <<"T", "S">> >> }

ExcludeOptions ==
    { <<>>, <<GlobTail(N_A)>>, <<GlobTail(N_src)>>, <<GlobInvalid>> }

MaxBytesOptions == {None} \cup { Some(n) : n \in 0..MaxSize }
TopOptions == {None} \cup { Some(n) : n \in 0..(Cardinality(Sources) + 1) }
Sorts == { "Path", "Tokens" }
Formats == { "Table", "Json", "Ndjson" }

BaseArgs ==
    [ paths |-> <<<<DOT>>>>,
      include_ext |-> << S_elm, <<"T", "S">> >>,
      exclude |-> <<>>,
      max_bytes |-> None,
      format |-> "Json",
      top |-> None,
      sort |-> "Path",
      threads |-> None,
      with_summary_flag |-> FALSE,
      no_summary_flag |-> FALSE ]

BaseEnv == [pool_ok |-> TRUE, encoding_ok |-> TRUE]

-----------------------------------------------------------------------------
(* Initial states: run() is entered with the parsed arguments.  Each group of *)
(* inputs is varied over its whole set with the other groups at their base.   *)

Idle ==
    /\ pc = "pool"
    /\ exit_code = None
    /\ include_exts = {}
    /\ exclude_set = <<>>
    /\ root_i = 0
    /\ walkq = <<>>
    /\ descended = {}
    /\ yielded = {}
    /\ files = <<>>
    /\ todo = {}
    /\ results = <<>>
    /\ stats = <<>>
    /\ display = <<>>
    /\ summary = None
    /\ stdout = <<>>

\* Discovery: the roots, the include list and the exclude patterns.
InitDiscovery ==
    /\ args \in { [BaseArgs EXCEPT !.paths = p, !.include_ext = i, !.exclude = x] :
                    p \in PathsOptions, i \in IncludeOptions, x \in ExcludeOptions }
    /\ fs = BaseFs
    /\ env = BaseEnv

\* Processing: the condition of every source, the size limit, the format.
InitProcessing ==
    /\ args \in { [BaseArgs EXCEPT !.max_bytes = m, !.format = f] :
                    m \in MaxBytesOptions, f \in Formats }
    /\ fs \in FsOver(AllConds)
    /\ env = BaseEnv

\* Reporting: the token counts, the top-N limit and the sort key.
InitReporting ==
    /\ args \in { [BaseArgs EXCEPT !.top = t, !.sort = s] :
                    t \in TopOptions, s \in Sorts }
    /\ fs \in FsOver(OkConds)
    /\ env = BaseEnv

\* Formats: the format and the summary flags, with and without a top-N limit,
\* over a tree whose sources are all readable or all gone.
InitFormat ==
    /\ args \in { [BaseArgs EXCEPT !.format = f, !.with_summary_flag = w,
                                   !.no_summary_flag = n, !.top = t] :
                    f \in Formats, w \in BOOLEAN, n \in BOOLEAN,
                    t \in {None, Some(1)} }
    /\ fs \in { BaseFs } \cup FsOver({NoMetadata})
    /\ env = BaseEnv

\* Configuration: the worker pool, the tokenizer and the exclude patterns.
InitConfig ==
    /\ args \in { [BaseArgs EXCEPT !.threads = t, !.exclude = x] :
                    t \in {None, Some(1)}, x \in ExcludeOptions }
    /\ fs = BaseFs
    /\ env \in [pool_ok : BOOLEAN, encoding_ok : BOOLEAN]

Init ==
    /\ Idle
    /\ counts_in = <<>>
    /\ pct_out = None
    /\ \/ InitDiscovery
       \/ InitProcessing
       \/ InitReporting
       \/ InitFormat
       \/ InitConfig

-----------------------------------------------------------------------------
(* run(): configuration (lines 230-246).  A failure returns Err to main,     *)
(* which prints it to standard error and exits with status 1.                *)

Fail ==
    /\ pc' = "exited"
    /\ exit_code' = Some(1)

\* Lines 231-236: the global pool is built only when --threads is given.
ConfigurePool ==
    /\ pc = "pool"
    /\ IF IsSome(args.threads) /\ ~env.pool_ok
       THEN Fail
       ELSE pc' = "encoding" /\ exit_code' = exit_code
    /\ UNCHANGED <<args, fs, env, include_exts, exclude_set, root_i, walkq,
                   descended, yielded, files, todo, results, stats, display,
                   summary, stdout, counts_in, pct_out>>

\* Lines 238-239: the include set, then the tokenizer.
LoadEncoding ==
    /\ pc = "encoding"
    /\ include_exts' = include_extensions(args)
    /\ IF ~env.encoding_ok
       THEN Fail
       ELSE pc' = "globset" /\ exit_code' = exit_code
    /\ UNCHANGED <<args, fs, env, exclude_set, root_i, walkq, descended,
                   yielded, files, todo, results, stats, display, summary,
                   stdout, counts_in, pct_out>>

\* Lines 240-244: the roots, "." when none is given.
Roots(a) == IF a.paths = <<>> THEN <<<<DOT>>>> ELSE a.paths

\* Lines 246-247.
BuildExcludeGlobset ==
    /\ pc = "globset"
    /\ LET built == build_exclude_globset(args.exclude)
       IN  IF built = None
           THEN Fail /\ exclude_set' = exclude_set
           ELSE /\ exclude_set' = Unwrap(built)
                /\ pc' = "walk"
                /\ exit_code' = exit_code
    /\ UNCHANGED <<args, fs, env, include_exts, root_i, walkq, descended,
                   yielded, files, todo, results, stats, display, summary,
                   stdout, counts_in, pct_out>>

-----------------------------------------------------------------------------
(* collect_files (lines 283-342). *)

\* The filter_entry closure (lines 300-314): FALSE prunes the entry.
filter_entry(e, excludes) ==
    IF e.depth = 0 THEN TRUE
    ELSE IF is_match(excludes, e.path) THEN ~is_dir(e)
    ELSE TRUE

\* The loop without its "else continue" for a path that has no extension.
is_candidate_no_ext(e, excludes, exts) ==
    IF is_match(excludes, e.path) THEN FALSE
    ELSE IF ~is_file(e) THEN FALSE
    ELSE IF IsSome(extension(e.path))
         THEN to_ascii_lowercase(Unwrap(extension(e.path))) \in exts
         ELSE TRUE

\* The Ok arm of the walk loop (lines 318-333): whether the entry is pushed.
is_candidate(e, excludes, exts) ==
    IF is_match(excludes, e.path) THEN FALSE
    ELSE IF ~is_file(e) THEN FALSE
    ELSE IF IsSome(extension(e.path))
         THEN to_ascii_lowercase(Unwrap(extension(e.path))) \in exts
         ELSE FALSE

\* Lines 249-250 and 292-316: the walker of the next root is built.
StartRoot ==
    /\ pc = "walk"
    /\ walkq = <<>>
    /\ root_i < Len(Roots(args))
    /\ root_i' = root_i + 1
    /\ walkq' = << Entry(Roots(args)[root_i + 1], 0) >>
    /\ UNCHANGED <<args, fs, env, pc, exit_code, include_exts, exclude_set,
                   descended, yielded, files, todo, results, stats, display,
                   summary, stdout, counts_in, pct_out>>

\* The walker reports an error for an entry it cannot read (lines 334-338).
WalkError ==
    /\ pc = "walk"
    /\ walkq # <<>>
    /\ ~Exists(Head(walkq).path)
    /\ walkq' = Tail(walkq)
    /\ UNCHANGED <<args, fs, env, pc, exit_code, include_exts, exclude_set,
                   root_i, descended, yielded, files, todo, results, stats,
                   display, summary, stdout, counts_in, pct_out>>

\* The walker drops an entry filter_entry rejects: it is neither given to the
\* loop nor descended into.
WalkPruned ==
    /\ pc = "walk"
    /\ walkq # <<>>
    /\ Exists(Head(walkq).path)
    /\ ~filter_entry(Head(walkq), exclude_set)
    /\ walkq' = Tail(walkq)
    /\ UNCHANGED <<args, fs, env, pc, exit_code, include_exts, exclude_set,
                   root_i, descended, yielded, files, todo, results, stats,
                   display, summary, stdout, counts_in, pct_out>>

\* A candidate list that keeps one entry for each file, however often the
\* file is reached.
push_once(v, path) ==
    IF \E i \in 1..Len(v) : Canon(v[i]) = Canon(path) THEN v
    ELSE Append(v, path)

\* Line 332: files.push(entry.into_path()), on the list every root shares.
push(v, path) == Append(v, path)

\* The walker gives an entry to the loop (lines 318-333) and, when it is a
\* directory, goes on with its children.
WalkEntry ==
    /\ pc = "walk"
    /\ walkq # <<>>
    /\ LET e == Head(walkq)
       IN  /\ Exists(e.path)
           /\ filter_entry(e, exclude_set)
           /\ yielded' = yielded \cup { <<root_i, e.path>> }
           /\ files' = IF is_candidate(e, exclude_set, include_exts)
                       THEN push(files, e.path)
                       ELSE files
           /\ IF is_dir(e)
              THEN /\ descended' = descended \cup { <<root_i, e.path>> }
                   /\ walkq' = ChildEntries(e) \o Tail(walkq)
              ELSE /\ descended' = descended
                   /\ walkq' = Tail(walkq)
    /\ UNCHANGED <<args, fs, env, pc, exit_code, include_exts, exclude_set,
                   root_i, todo, results, stats, display, summary, stdout,
                   counts_in, pct_out>>

-----------------------------------------------------------------------------
(* count_tokens and process_file (lines 344-402). *)

FileStat(path, tokens) == [path |-> path, tokens |-> tokens]

\* The Result of process_file, with whether the content was read.
Outcome(kind, stat, read) == [kind |-> kind, stat |-> stat, read |-> read]

\* process_file with a placeholder entry of 0 tokens for an unreadable file.
process_file_placeholder(path, max_bytes) ==
    LET display_path == normalize_display_path(path)
        c == fs[Canon(path)]
    IN  IF ~c.meta THEN Outcome("Metadata", None, FALSE)
        ELSE IF IsSome(max_bytes) /\ c.size > Unwrap(max_bytes)
        THEN Outcome("TooLarge", None, FALSE)
        ELSE IF ~c.utf8 THEN Outcome("Ok", Some(FileStat(display_path, 0)), TRUE)
        ELSE Outcome("Ok", Some(FileStat(display_path, c.tokens)), TRUE)

\* process_file skipping a file whose length equals the limit.
process_file_inclusive(path, max_bytes) ==
    LET display_path == normalize_display_path(path)
        c == fs[Canon(path)]
    IN  IF ~c.meta THEN Outcome("Metadata", None, FALSE)
        ELSE IF IsSome(max_bytes) /\ c.size >= Unwrap(max_bytes)
        THEN Outcome("TooLarge", None, FALSE)
        ELSE IF ~c.utf8 THEN Outcome("Read", None, TRUE)
        ELSE Outcome("Ok", Some(FileStat(display_path, c.tokens)), TRUE)

process_file(path, max_bytes) ==
    LET display_path == normalize_display_path(path)
        c == fs[Canon(path)]
    IN  IF ~c.meta THEN Outcome("Metadata", None, FALSE)
        ELSE IF IsSome(max_bytes) /\ c.size > Unwrap(max_bytes)
        THEN Outcome("TooLarge", None, FALSE)
        ELSE IF ~c.utf8 THEN Outcome("Read", None, TRUE)
        ELSE Outcome("Ok", Some(FileStat(display_path, c.tokens)), TRUE)

\* Line 255: every root is walked; the candidates go to the workers.
StartCount ==
    /\ pc = "walk"
    /\ walkq = <<>>
    /\ root_i = Len(Roots(args))
    /\ pc' = "count"
    /\ todo' = 1..Len(files)
    /\ results' = [i \in 1..Len(files) |-> None]
    /\ UNCHANGED <<args, fs, env, exit_code, include_exts, exclude_set, root_i,
                   walkq, descended, yielded, files, stats, display, summary,
                   stdout, counts_in, pct_out>>

\* Every worker writing the one shared place.
SlotShared(i) == 1

\* The place of candidate i's result in the collected sequence: its own.
Slot(i) == i

\* The filter_map closure (lines 349-366) on one candidate, on some worker.
ProcessFile(i) ==
    /\ pc = "count"
    /\ i \in todo
    /\ todo' = todo \ {i}
    /\ results' = [results EXCEPT
                     ![Slot(i)] = Some(process_file(files[i], args.max_bytes))]
    /\ UNCHANGED <<args, fs, env, pc, exit_code, include_exts, exclude_set,
                   root_i, walkq, descended, yielded, files, stats, display,
                   summary, stdout, counts_in, pct_out>>

\* filter_map(..).collect() (lines 352-367): the Ok results, in candidate order.
RECURSIVE collect(_)
collect(rs) ==
    IF rs = <<>> THEN <<>>
    ELSE LET r == Head(rs)
         IN  (IF IsSome(r) /\ Unwrap(r).kind = "Ok"
              THEN Unwrap(r).stat ELSE <<>>) \o collect(Tail(rs))

Collect ==
    /\ pc = "count"
    /\ todo = {}
    /\ stats' = collect(results)
    /\ pc' = "output"
    /\ UNCHANGED <<args, fs, env, exit_code, include_exts, exclude_set, root_i,
                   walkq, descended, yielded, files, todo, results, display,
                   summary, stdout, counts_in, pct_out>>

-----------------------------------------------------------------------------
(* output_results, build_summary and percentile (lines 404-471). *)

\* The comparators of lines 406/423 and 409/425, as "a sorts before b".
ByPath(a, b) == StrLess(a.path, b.path)
ByTokens(a, b) ==
    \/ a.tokens > b.tokens
    \/ a.tokens = b.tokens /\ StrLess(a.path, b.path)

\* The comparator of a sort key: Path (lines 406, 423) or Tokens (409, 425).
Before(key, a, b) == IF key = "Path" THEN ByPath(a, b) ELSE ByTokens(a, b)

\* slice::sort_by, a stable sort: an element comes after those that sort
\* strictly before it and after the earlier ones it compares equal to.
sort_by(s, key) ==
    LET n == Len(s)
        rank(i) ==
            Cardinality({ j \in 1..n : Before(key, s[j], s[i]) })
            + Cardinality({ j \in 1..i :
                              ~Before(key, s[j], s[i]) /\ ~Before(key, s[i], s[j]) })
    IN  [k \in 1..n |-> s[CHOOSE i \in 1..n : rank(i) = k]]

\* Iterator::take(n).
take(s, n) == SubSeq(s, 1, Min(n, Len(s)))

\* The top-N taken from the list in the requested order.
display_stats_by_sort(st, a) ==
    LET all == sort_by(st, "Path")
        token_sorted == sort_by(st, "Tokens")
        chosen == IF a.sort = "Path" THEN all ELSE token_sorted
    IN  IF IsSome(a.top) THEN take(chosen, Unwrap(a.top)) ELSE chosen

\* Lines 405-418: the entries to display.
display_stats(st, a) ==
    LET all == sort_by(st, "Path")
        token_sorted == sort_by(st, "Tokens")
    IN  IF IsSome(a.top) THEN take(token_sorted, Unwrap(a.top))
        ELSE IF a.sort = "Path" THEN all
        ELSE token_sorted

\* Lines 420-428: their order.
ordered(st, a) ==
    IF IsSome(a.top)
    THEN IF a.sort = "Path" THEN sort_by(display_stats(st, a), "Path")
         ELSE sort_by(display_stats(st, a), "Tokens")
    ELSE display_stats(st, a)

\* Lines 432-433: the summary's top list.
summary_top(st, a) ==
    IF IsSome(a.top)
    THEN Some(take(sort_by(st, "Tokens"), Unwrap(a.top)))
    ELSE None

\* percentile with the rank rounded down.
percentile_floor(sorted, pct) ==
    IF sorted = <<>> THEN 0
    ELSE LET rank == Max((pct * Len(sorted)) \div 100, 1)
         IN  sorted[Min(Max(rank - 1, 0), Len(sorted) - 1) + 1]

\* percentile (lines 465-471), p in hundredths.  ceil(p * n) is computed in
\* f64 by the code; for p in {0.50, 0.90, 0.99} it equals the exact
\* ceil(pct * n / 100) for every n up to 2,000,000.
percentile(sorted, pct) ==
    IF sorted = <<>> THEN 0
    ELSE LET rank == Max((pct * Len(sorted) + 99) \div 100, 1)
         IN  sorted[Min(Max(rank - 1, 0), Len(sorted) - 1) + 1]

\* slice::sort_unstable on integers: the ascending arrangement, in which the
\* k-th value v has fewer than k values below it and at least k not above it.
sort_unstable(c) ==
    [k \in 1..Len(c) |->
        CHOOSE v \in { c[i] : i \in 1..Len(c) } :
            /\ Cardinality({ i \in 1..Len(c) : c[i] < v }) < k
            /\ Cardinality({ i \in 1..Len(c) : c[i] <= v }) >= k]

RECURSIVE SumTokens(_)
SumTokens(st) == IF st = <<>> THEN 0 ELSE Head(st).tokens + SumTokens(Tail(st))

\* total as f64 / files as f64, kept as the exact ratio; 0.0 is 0/1.
Ratio(num, den) == [num |-> num, den |-> den]

\* build_summary (lines 443-463).
build_summary(all_stats, top) ==
    LET files_n == Len(all_stats)
        total == SumTokens(all_stats)
        average == IF files_n > 0 THEN Ratio(total, files_n) ELSE Ratio(0, 1)
        counts == sort_unstable([i \in 1..Len(all_stats) |-> all_stats[i].tokens])
    IN  [ files |-> files_n,
          total |-> total,
          average |-> average,
          p50 |-> percentile(counts, 50),
          p90 |-> percentile(counts, 90),
          p99 |-> percentile(counts, 99),
          top |-> top ]

\* The summary built from the displayed list.
summary_of_display(st, a) == build_summary(ordered(st, a), summary_top(st, a))

\* Lines 430-434: the summary is built from stats, not from the display.
summary_of(st, a) == build_summary(st, summary_top(st, a))

-----------------------------------------------------------------------------
(* The printers (lines 473-543).  Standard output is a sequence of printed  *)
(* items [kind, body]; the json printer prints the whole array as one item. *)

Item(kind, body) == [kind |-> kind, body |-> body]

RECURSIVE num_digits(_)
num_digits(value) == IF value < 10 THEN 1 ELSE 1 + num_digits(value \div 10)

RECURSIVE MaxDigits(_)
MaxDigits(st) ==
    IF st = <<>> THEN 0
    ELSE Max(num_digits(Head(st).tokens), MaxDigits(Tail(st)))

\* Serialize for Summary: top is skipped when it is None (line 159).
SummaryJson(s) ==
    IF s.top = None
    THEN [ files |-> s.files, total |-> s.total, average |-> s.average,
           p50 |-> s.p50, p90 |-> s.p90, p99 |-> s.p99 ]
    ELSE [ files |-> s.files, total |-> s.total, average |-> s.average,
           p50 |-> s.p50, p90 |-> s.p90, p99 |-> s.p99, top |-> Unwrap(s.top) ]

print_table(st, s) ==
    LET width == IF st = <<>> THEN 1 ELSE MaxDigits(st)
    IN  [i \in 1..Len(st) |->
            Item("row", [width |-> width, tokens |-> st[i].tokens,
                         path |-> st[i].path])]
        \o << Item("rule", [text |-> "---"]),
              Item("total files", [value |-> s.files]),
              Item("total tokens", [value |-> s.total]),
              Item("average/file", [value |-> s.average, decimals |-> 2]),
              Item("p50", [value |-> s.p50]),
              Item("p90", [value |-> s.p90]),
              Item("p99", [value |-> s.p99]) >>
        \o (IF IsSome(s.top)
            THEN << Item("top files", [text |-> "top files:"]) >>
                 \o [i \in 1..Len(Unwrap(s.top)) |->
                        Item("top", [path |-> Unwrap(s.top)[i].path,
                                     tokens |-> Unwrap(s.top)[i].tokens])]
            ELSE <<>>)

print_json(st, s) ==
    LET rows == [i \in 1..Len(st) |->
                    [path |-> st[i].path, tokens |-> st[i].tokens]]
    IN  << Item("json", [rows |-> Append(rows, [summary |-> SummaryJson(s)])]) >>

print_ndjson(st, s, summary_on) ==
    [i \in 1..Len(st) |->
        Item("ndjson", [path |-> st[i].path, tokens |-> st[i].tokens])]
    \o (IF summary_on
        THEN << Item("ndjson", [summary |-> SummaryJson(s)]) >>
        ELSE <<>>)

\* Lines 436-440.
render(st, s, a) ==
    CASE a.format = "Table" -> print_table(st, s)
      [] a.format = "Json" -> print_json(st, s)
      [] OTHER -> print_ndjson(st, s, with_summary(a))

\* output_results, then run returns Ok and main ends with status 0.
OutputResults ==
    /\ pc = "output"
    /\ display' = ordered(stats, args)
    /\ summary' = Some(summary_of(stats, args))
    /\ stdout' = stdout \o render(ordered(stats, args), summary_of(stats, args), args)
    /\ pc' = "exited"
    /\ exit_code' = Some(0)
    /\ UNCHANGED <<args, fs, env, include_exts, exclude_set, root_i, walkq,
                   descended, yielded, files, todo, results, stats, counts_in,
                   pct_out>>

Next ==
    \/ ConfigurePool
    \/ LoadEncoding
    \/ BuildExcludeGlobset
    \/ StartRoot
    \/ WalkError
    \/ WalkPruned
    \/ WalkEntry
    \/ StartCount
    \/ \E i \in 1..Len(files) : ProcessFile(i)
    \/ Collect
    \/ OutputResults

Spec == Init /\ [][Next]_vars

-----------------------------------------------------------------------------
(* The summary statistics on their own: build_summary applied to token-count *)
(* distributions longer than the scanned tree can give.                      *)

Ramp(n) == [i \in 1..n |-> i]

CountsInputs ==
    SeqsUpTo(1..MaxVal, MaxShort) \cup { Ramp(n) : n \in 0..MaxRamp }

StatsOfCounts(c) == [i \in 1..Len(c) |-> FileStat(N_A, c[i])]

SummaryInit ==
    /\ Idle
    /\ args = BaseArgs
    /\ fs = BaseFs
    /\ env = BaseEnv
    /\ counts_in \in CountsInputs
    /\ pct_out = None

Summarize ==
    /\ pct_out = None
    /\ pct_out' = Some(build_summary(StatsOfCounts(counts_in), None))
    /\ UNCHANGED <<args, fs, env, pc, exit_code, include_exts, exclude_set,
                   root_i, walkq, descended, yielded, files, todo, results,
                   stats, display, summary, stdout, counts_in>>

SummaryNext == Summarize

SummarySpec == SummaryInit /\ [][SummaryNext]_vars

-----------------------------------------------------------------------------
(* Properties. *)

\* The run went through output_results and ended.
Reported == pc = "exited" /\ exit_code = Some(0)
\* count_tokens has returned.
Aggregated == pc = "output" \/ Reported

CountIn(seq, x) == Cardinality({ i \in 1..Len(seq) : seq[i] = x })
Range(seq) == { seq[i] : i \in 1..Len(seq) }
SameBag(s, t) == \A x \in Range(s) \cup Range(t) : CountIn(s, x) = CountIn(t, x)

\* The condition of a candidate, and whether the file system lets it through.
CondOf(path) == fs[Canon(path)]
Succeeds(path) ==
    /\ CondOf(path).meta
    /\ args.max_bytes = None \/ CondOf(path).size <= Unwrap(args.max_bytes)
    /\ CondOf(path).utf8
StatOf(path) == FileStat(normalize_display_path(path), CondOf(path).tokens)
Successful == { i \in 1..Len(files) : Succeeds(files[i]) }

\* C1: count_tokens returns exactly one FileStat for each candidate that was
\* processed successfully and nothing for a candidate that failed (metadata
\* unavailable, too large, read failed); no failure ends the run or keeps
\* another candidate from being processed.
C1_AggregateIsSuccessfulSubset ==
    /\ pc \in {"count", "output"} => exit_code = None
    /\ Aggregated =>
        /\ \A i \in 1..Len(files) :
              /\ IsSome(results[i])
              /\ Unwrap(results[i]).kind = "Ok" <=> Succeeds(files[i])
        /\ Len(stats) = Cardinality(Successful)
        /\ \A x \in Range(stats) \cup { StatOf(files[i]) : i \in Successful } :
              CountIn(stats, x) =
                  Cardinality({ i \in Successful : StatOf(files[i]) = x })

\* A finished run in which one candidate succeeded and two failed differently.
C1_Witness ==
    /\ Reported
    /\ \E i, j, k \in 1..Len(files) :
          /\ IsSome(results[i]) /\ Unwrap(results[i]).kind = "Ok"
          /\ IsSome(results[j]) /\ Unwrap(results[j]).kind = "Metadata"
          /\ IsSome(results[k]) /\ Unwrap(results[k]).kind = "Read"
    /\ Len(stats) = 1

\* The run computed one candidate after the other.
SequentialStats ==
    collect([i \in 1..Len(files) |-> Some(process_file(files[i], args.max_bytes))])

\* C2: whatever the order in which the workers take and finish the candidates,
\* the result is the one of the candidate list and the file contents: a
\* worker's result is that of its own candidate alone, and the FileStat
\* entries, the displayed list and its order, the summary and the output are
\* those of processing the candidates one after the other.
C2_InterleavingIndependent ==
    /\ pc = "count" =>
          \A i \in 1..Len(files) :
              results[i] = IF i \in todo THEN None
                           ELSE Some(process_file(files[i], args.max_bytes))
    /\ Aggregated => SameBag(stats, SequentialStats)
    /\ Reported =>
          /\ display = ordered(SequentialStats, args)
          /\ summary = Some(summary_of(SequentialStats, args))
          /\ stdout = render(ordered(SequentialStats, args),
                             summary_of(SequentialStats, args), args)

\* The last candidate is finished while the first is not yet taken.
C2_Witness ==
    /\ pc = "count"
    /\ Len(files) >= 3
    /\ 1 \in todo
    /\ Len(files) \notin todo
    /\ IsSome(results[Len(files)])

\* x ranks before y in the top-N selection.
RanksBefore(x, y) ==
    \/ x.tokens > y.tokens
    \/ x.tokens = y.tokens /\ StrLess(x.path, y.path)

OtherSort(k) == IF k = "Path" THEN "Tokens" ELSE "Path"

\* C3: with --top N the displayed list is the min(N, count) entries with the
\* largest tokens, ties broken by ascending path, under either sort key; the
\* key only orders them (path ascending, or tokens descending then path
\* ascending); the summary's top list is the same entries in tokens order.
C3_TopNSelection ==
    (Reported /\ IsSome(args.top)) =>
        LET n == Unwrap(args.top)
            t == Unwrap(Unwrap(summary).top)
        IN  /\ Len(display) = Min(n, Len(stats))
            /\ \A x \in Range(display) : CountIn(display, x) <= CountIn(stats, x)
            /\ \A x \in Range(stats) :
                  CountIn(display, x) < CountIn(stats, x) =>
                      \A y \in Range(display) : ~RanksBefore(x, y)
            /\ SameBag(display, ordered(stats, [args EXCEPT !.sort = OtherSort(@)]))
            /\ \A i, j \in 1..Len(display) :
                  i < j =>
                      IF args.sort = "Path"
                      THEN ~StrLess(display[j].path, display[i].path)
                      ELSE ~RanksBefore(display[j], display[i])
            /\ IsSome(Unwrap(summary).top)
            /\ SameBag(t, display)
            /\ \A i, j \in 1..Len(t) : i < j => ~RanksBefore(t[j], t[i])

\* A top-2 of three files shown by path that is not the first two paths.
C3_Witness ==
    /\ Reported
    /\ args.top = Some(2)
    /\ args.sort = "Path"
    /\ Len(stats) = 3
    /\ display # take(sort_by(stats, "Path"), 2)
    /\ display # Unwrap(Unwrap(summary).top)

\* The value at 1-based rank r of the ascending arrangement of c.
AtRank(c, r) ==
    CHOOSE v \in Range(c) :
        /\ Cardinality({ i \in 1..Len(c) : c[i] < v }) < r
        /\ Cardinality({ i \in 1..Len(c) : c[i] <= v }) >= r

\* ceil(pct/100 * n) clamped to [1, n]: the least rank r with r >= pct*n/100.
NearestRank(pct, n) ==
    LET r == CHOOSE k \in 0..n : 100 * k >= pct * n /\ 100 * (k - 1) < pct * n
    IN  Min(Max(r, 1), n)

\* C4: the percentiles of the summary are nearest-rank percentiles: 0 for an
\* empty distribution, otherwise the value at rank ceil(p * n) (clamped to
\* [1, n]) of the ascending values; [1,2,3] has p50 = 2 and p90 = 3, and a
\* single value is every percentile of itself.
C4_NearestRankPercentile ==
    IsSome(pct_out) =>
        LET s == Unwrap(pct_out)
            n == Len(counts_in)
        IN  /\ n = 0 => s.p50 = 0 /\ s.p90 = 0 /\ s.p99 = 0 /\ s.average.num = 0
            /\ n > 0 =>
                  /\ s.p50 = AtRank(counts_in, NearestRank(50, n))
                  /\ s.p90 = AtRank(counts_in, NearestRank(90, n))
                  /\ s.p99 = AtRank(counts_in, NearestRank(99, n))
            /\ counts_in = <<1, 2, 3>> => s.p50 = 2 /\ s.p90 = 3
            /\ n = 1 => s.p50 = counts_in[1] /\ s.p90 = counts_in[1]
                        /\ s.p99 = counts_in[1]

\* A distribution long enough for p50, p90 and p99 to differ from the maximum
\* and from each other.
C4_Witness ==
    /\ IsSome(pct_out)
    /\ Len(counts_in) > 100
    /\ Unwrap(pct_out).p50 < Unwrap(pct_out).p90
    /\ Unwrap(pct_out).p90 < Unwrap(pct_out).p99
    /\ Unwrap(pct_out).p99 < Len(counts_in)

RECURSIVE TotalOf(_, _)
TotalOf(st, S) ==
    IF S = {} THEN 0
    ELSE LET i == CHOOSE j \in S : TRUE
         IN  st[i].tokens + TotalOf(st, S \ {i})

\* C5: the summary describes every aggregated FileStat, whatever is displayed:
\* files is their number (the number of candidates processed successfully),
\* total the sum of their tokens, average total/files, and 0 for no file.
C5_SummaryOverAllStats ==
    Reported =>
        LET s == Unwrap(summary)
        IN  /\ s.files = Len(stats)
            /\ s.files = Cardinality(Successful)
            /\ s.total = TotalOf(stats, 1..Len(stats))
            /\ s.files = 0 => s.average.num = 0 /\ s.average.den # 0
            /\ s.files > 0 =>
                  /\ s.average.den # 0
                  /\ s.average.num * s.files = s.total * s.average.den

\* A top-1 of three aggregated files: the display is shorter than the set.
C5_Witness ==
    /\ Reported
    /\ args.top = Some(1)
    /\ Len(display) = 1
    /\ Len(stats) = 3
    /\ Unwrap(summary).files = 3
    /\ Unwrap(summary).total > display[1].tokens

\* Candidate i's file is known to be longer than the limit.
ExceedsLimit(i) ==
    /\ IsSome(args.max_bytes)
    /\ CondOf(files[i]).meta
    /\ CondOf(files[i]).size > Unwrap(args.max_bytes)

\* C6: under --max-bytes a file longer than the limit is TooLarge without its
\* content being read, is in neither the displayed list nor the summary's
\* files and total, and leaves the exit status 0; a file not longer than the
\* limit is never TooLarge, and without a limit no file is.
C6_MaxBytes ==
    /\ \A i \in 1..Len(results) :
          IsSome(results[i]) =>
              LET r == Unwrap(results[i])
              IN  /\ ExceedsLimit(i) => r.kind = "TooLarge" /\ ~r.read
                  /\ r.kind = "TooLarge" => ExceedsLimit(i)
    /\ Reported =>
          \A i \in 1..Len(files) :
              ExceedsLimit(i) =>
                  LET shown == normalize_display_path(files[i])
                      kept == { j \in 1..Len(files) : ~ExceedsLimit(j) /\ Succeeds(files[j]) }
                  IN  /\ \A k \in 1..Len(display) : display[k].path # shown
                      /\ \A k \in 1..Len(stats) : stats[k].path # shown
                      /\ Unwrap(summary).files = Cardinality(kept)
                      /\ Unwrap(summary).total =
                            TotalOf([j \in 1..Len(files) |-> StatOf(files[j])], kept)
    /\ (pc = "exited" /\ \E i \in 1..Len(files) : ExceedsLimit(i)) => exit_code = Some(0)

\* A finished run with a limit of 1 byte: a 2-byte file was skipped unread and
\* a 1-byte file was counted.
C6_Witness ==
    /\ Reported
    /\ args.max_bytes = Some(1)
    /\ \E i, j \in 1..Len(files) :
          /\ CondOf(files[i]).size = 2
          /\ Unwrap(results[i]) = Outcome("TooLarge", None, FALSE)
          /\ CondOf(files[j]).size = 1
          /\ Unwrap(results[j]).kind = "Ok"

\* Two characters that are the same letter, whatever their case.
CasePairs ==
    { {"a", "A"}, {"b", "B"}, {"e", "E"}, {"g", "G"}, {"l", "L"}, {"m", "M"},
      {"s", "S"}, {"t", "T"} }
SameLetter(x, y) == x = y \/ {x, y} \in CasePairs
EqIgnoreCase(a, b) ==
    Len(a) = Len(b) /\ \A i \in 1..Len(a) : SameLetter(a[i], b[i])

\* The include extensions as configured: the ones given without their leading
\* ".", elm when none is given.
Configured ==
    IF args.include_ext = <<>> THEN { S_elm }
    ELSE { StripDot(args.include_ext[i]) : i \in 1..Len(args.include_ext) }

AllowedExtension(path) ==
    /\ IsSome(extension(path))
    /\ \E c \in Configured : EqIgnoreCase(Unwrap(extension(path)), c)

\* The walk of root k is over.
Walked(k) == k < root_i \/ (k = root_i /\ walkq = <<>>)

\* C7: the depth-0 entry is never excluded: a root that is a directory is
\* descended into, and a root that is a regular file with an allowed extension
\* becomes a candidate, also when its path matches an exclude pattern.
C7_RootNeverExcluded ==
    \A k \in 1..root_i :
        Walked(k) =>
            LET root == Roots(args)[k]
            IN  /\ Canon(root) \in Dirs => <<k, root>> \in descended
                /\ (Canon(root) \in Files /\ AllowedExtension(root)) =>
                      \E j \in 1..Len(files) : files[j] = root

\* C8: a candidate is a regular file that has an extension equal, whatever the
\* case, to a configured include extension (elm by default, a leading "." of a
\* configured extension dropped); a file without extension is no candidate,
\* and B.TS is one only when ts is configured.
C8_ExtensionFilter ==
    \A j \in 1..Len(files) :
        /\ Canon(files[j]) \in Files
        /\ IsSome(extension(files[j]))
        /\ AllowedExtension(files[j])
        /\ Canon(files[j]) = <<N_B>> =>
              \E i \in 1..Len(args.include_ext) :
                  StripDot(args.include_ext[i]) \in { <<"t", "s">>, <<"T", "S">>,
                                                      <<"t", "S">>, <<"T", "s">> }

\* With --include-ext .ELM, A.elm is a candidate, and the hidden file .elm and
\* B.TS were seen by the loop and are not.
C8_Witness ==
    /\ args.include_ext = << <<".", "E", "L", "M">> >>
    /\ pc = "count"
    /\ \E j \in 1..Len(files) : files[j] = <<DOT, N_A>>
    /\ <<1, <<DOT, N_H>>>> \in yielded
    /\ <<1, <<DOT, N_B>>>> \in yielded
    /\ \A j \in 1..Len(files) : files[j] \notin { <<DOT, N_H>>, <<DOT, N_B>> }

\* A fatal configuration error, as the arguments and the environment decide it.
FatalConfig ==
    \/ IsSome(args.threads) /\ ~env.pool_ok
    \/ ~env.encoding_ok
    \/ \E i \in 1..Len(args.exclude) : args.exclude[i].kind = "invalid"

NothingDone ==
    /\ root_i = 0
    /\ yielded = {}
    /\ descended = {}
    /\ files = <<>>
    /\ results = <<>>
    /\ stats = <<>>
    /\ stdout = <<>>

\* C9: the exit status is non-zero exactly when the thread pool cannot be
\* built, the tokenizer cannot be loaded or an exclude glob is invalid; such a
\* run walks no root, tokenizes no file and prints nothing to standard output;
\* every other run has no exit status until it ends, with status 0, and is
\* never left without a next root, entry or candidate to go on with.
C9_ExitStatus ==
    /\ pc = "exited" => IsSome(exit_code)
    /\ pc = "exited" => (exit_code # Some(0) <=> FatalConfig)
    /\ FatalConfig => NothingDone
    /\ (IsSome(exit_code) /\ exit_code # Some(0)) => NothingDone
    /\ pc # "exited" => exit_code = None
    /\ pc \in {"pool", "encoding", "globset", "walk", "count", "output", "exited"}
    /\ pc = "walk" => root_i <= Len(Roots(args))
    /\ pc = "count" => todo \subseteq 1..Len(files)

\* The pool and the tokenizer are fine and the user's glob is invalid: exit 1.
C9_Witness ==
    /\ pc = "exited"
    /\ exit_code = Some(1)
    /\ IsSome(args.threads)
    /\ env.pool_ok
    /\ env.encoding_ok
    /\ args.exclude = <<GlobInvalid>>

SummaryKeys == { "files", "total", "average", "p50", "p90", "p99" }
IsSummaryObject(o) == DOMAIN o = {"summary"} /\ SummaryKeys \subseteq DOMAIN o.summary
IsFileObject(o, stat) ==
    DOMAIN o = {"path", "tokens"} /\ o.path = stat.path /\ o.tokens = stat.tokens

\* C10: json prints one array: a {path, tokens} object per displayed file, then
\* once, as the last element, {summary: ..} with files, total, average, p50,
\* p90 and p99, also when no file was aggregated.  ndjson prints a line per
\* displayed file, then the summary line once, unless --no-summary is given,
\* and then no summary line at all.
C10_SummaryLast ==
    Reported =>
        /\ args.format = "Json" =>
              /\ Len(stdout) = 1
              /\ stdout[1].kind = "json"
              /\ LET rows == stdout[1].body.rows
                 IN  /\ Len(rows) = Len(display) + 1
                     /\ IsSummaryObject(rows[Len(rows)])
                     /\ rows[Len(rows)].summary.files = Len(stats)
                     /\ \A i \in 1..Len(display) : IsFileObject(rows[i], display[i])
        /\ args.format = "Ndjson" =>
              /\ \A i \in 1..Len(stdout) : stdout[i].kind = "ndjson"
              /\ Len(stdout) = Len(display) + (IF args.no_summary_flag THEN 0 ELSE 1)
              /\ \A i \in 1..Len(display) : IsFileObject(stdout[i].body, display[i])
              /\ ~args.no_summary_flag =>
                    /\ IsSummaryObject(stdout[Len(stdout)].body)
                    /\ stdout[Len(stdout)].body.summary.files = Len(stats)

\* ndjson with --no-summary (and --with-summary): the file lines and nothing else.
C10_Witness ==
    /\ Reported
    /\ args.format = "Ndjson"
    /\ args.no_summary_flag
    /\ args.with_summary_flag
    /\ Len(display) = 1
    /\ Len(stdout) = 1

\* The path the walker of root r reports for the file f below (or at) r.
EntryPath(r, f) == r \o SubSeq(f, Len(Canon(r)) + 1, Len(f))

\* The walk of root r makes file f a candidate: r exists, f is r or lies below
\* it, no directory between them is pruned, and the loop accepts f.
RootReaches(r, f) ==
    LET c == Canon(r)
    IN  /\ Exists(r)
        /\ IsPrefix(c, f)
        /\ \A d \in (Len(c) + 1)..(Len(f) - 1) :
              filter_entry(Entry(r \o SubSeq(f, Len(c) + 1, d), d - Len(c)),
                           exclude_set)
        /\ filter_entry(Entry(EntryPath(r, f), Len(f) - Len(c)), exclude_set)
        /\ is_candidate(Entry(EntryPath(r, f), Len(f) - Len(c)), exclude_set,
                        include_exts)

\* The number of given roots whose walk reaches f: a repeated root counts
\* each time it is given, and so does a root nested inside another.
Occurrences(f) ==
    Cardinality({ k \in 1..Len(Roots(args)) : RootReaches(Roots(args)[k], f) })

\* The files of the tree in the order a walk from the top meets them.
WalkOrder ==
    << <<N_H>>, <<N_A>>, <<N_B>>, <<N_src, N_S>>, <<N_target, N_G>> >>

\* The candidates of one root, in walk order.
RootList(r) ==
    LET reached(f) == RootReaches(r, f)
        below == SelectSeq(WalkOrder, reached)
    IN  [i \in 1..Len(below) |-> EntryPath(r, below[i])]

\* The lists of the first k roots, one after the other.
RECURSIVE ConcatRoots(_)
ConcatRoots(k) ==
    IF k = 0 THEN <<>>
    ELSE ConcatRoots(k - 1) \o RootList(Roots(args)[k])

\* Sum over the files that succeed of weight(f) for each occurrence.
RECURSIVE PerOccurrence(_, _)
PerOccurrence(S, withTokens) ==
    IF S = {} THEN 0
    ELSE LET f == CHOOSE g \in S : TRUE
             each == IF ~Succeeds(f) THEN 0
                     ELSE IF withTokens THEN fs[f].tokens ELSE 1
         IN  Occurrences(f) * each + PerOccurrence(S \ {f}, withTokens)

\* C11: the candidates of the roots are concatenated in root order and never
\* deduplicated: a file reached from several of the given roots (a root given
\* twice, a root inside another) is in the candidate list once for each root
\* that reaches it, is processed once for each of these entries, has one
\* FileStat for each (when it can be counted), and the summary's files and
\* total count it that many times.
C11_NoDeduplication ==
    /\ (pc = "count" \/ Aggregated) =>
          /\ files = ConcatRoots(Len(Roots(args)))
          /\ \A f \in Files :
                Cardinality({ i \in 1..Len(files) : Canon(files[i]) = f })
                    = Occurrences(f)
    /\ Aggregated =>
          /\ Len(results) = Len(files)
          /\ \A i \in 1..Len(files) :
                /\ IsSome(results[i])
                /\ Unwrap(results[i]).kind = "Ok" =>
                      Unwrap(results[i]).stat = Some(StatOf(files[i]))
          /\ \A f \in Files :
                CountIn(stats, StatOf(f)) =
                    IF Succeeds(f) THEN Occurrences(f) ELSE 0
    /\ Reported =>
          /\ Unwrap(summary).files = PerOccurrence(Files, FALSE)
          /\ Unwrap(summary).total = PerOccurrence(Files, TRUE)

\* A root nested inside another: src/S.elm is reached from "." and from src,
\* is twice among the candidates and the FileStat entries, and the summary
\* counts it twice.
C11_Witness ==
    /\ Reported
    /\ args.paths = << <<DOT>>, <<N_src>> >>
    /\ Occurrences(<<N_src, N_S>>) = 2
    /\ files = << <<DOT, N_A>>, <<DOT, N_src, N_S>>, <<N_src, N_S>> >>
    /\ CountIn(stats, StatOf(<<N_src, N_S>>)) = 2
    /\ Unwrap(summary).files = 3
    /\ Unwrap(summary).total
          = fs[<<N_A>>].tokens + 2 * fs[<<N_src, N_S>>].tokens

====
